---- MODULE Spec2Model ----
(***************************************************************************)
(* Model of the boids simulation engine of src/boids/__init__.py           *)
(* (update_boids / get_change / populate_grid / calculate_flee_velocity /  *)
(* get_colour_by_speed).                                                   *)
(*                                                                         *)
(* Numbers.  The program computes with floats.  The model computes on a    *)
(* fixed-point grid: every length is an integer number of 1/Scale world    *)
(* units, every division rounds to the nearest grid point (RoundDiv), and  *)
(* every comparison of a vector length against a bound is made exactly, on *)
(* the squares.  A Vector2 is a pair <<x, y>>.                             *)
(*                                                                         *)
(* Objects.  A boid is a record; the list `boids` is the authoritative     *)
(* agent list.  Python's list index idx (0-based) is the sequence index    *)
(* (1-based) here.  pygame's Vector2 is a mutable object and `+=`,         *)
(* attribute assignment and scale_to_length act in place, so the writes    *)
(* get_change makes through the alias `next_velocity = boid.velocity` are  *)
(* writes to boids[i].velocity.                                            *)
(***************************************************************************)
EXTENDS Integers, Sequences, FiniteSets, TLC

\* ------------------------------------------------------------------ bounds
\* Grid points per world unit.
Scale == 100
\* Number of calls of update_boids a behaviour makes.
MaxTicks == 2

\* ------------------------------------------------------------ arithmetic
Max2(a, b) == IF a >= b THEN a ELSE b

Min2(a, b) == IF a <= b THEN a ELSE b

\* a / b for b > 0, rounded to the nearest integer, halves away from zero.
RoundDiv(a, b) ==
  IF a >= 0 THEN (a + (b \div 2)) \div b ELSE -(((-a) + (b \div 2)) \div b)

\* floor(sqrt(n)) for n >= 0.
RECURSIVE ISqrt(_)
ISqrt(n) ==
  IF n < 2 THEN n
  ELSE LET s == 2 * ISqrt(n \div 4)
       IN IF (s + 1) * (s + 1) <= n THEN s + 1 ELSE s

\* sqrt(n) rounded to the nearest integer.
RSqrt(n) ==
  LET s == ISqrt(n) IN IF n - s * s > s THEN s + 1 ELSE s

\* ---------------------------------------------------------------- Vector2
Vec(x, y) == <<x, y>>

Zero == Vec(0, 0)

VAdd(a, b) == Vec(a[1] + b[1], a[2] + b[2])

VSub(a, b) == Vec(a[1] - b[1], a[2] - b[2])

\* Vector2 * (num / den)
VMulRat(a, num, den) == Vec(RoundDiv(a[1] * num, den), RoundDiv(a[2] * num, den))

\* Vector2 / n
VDiv(a, n) == Vec(RoundDiv(a[1], n), RoundDiv(a[2], n))

\* Vector2.length_squared()
LenSq(a) == a[1] * a[1] + a[2] * a[2]

\* Vector2.distance_squared_to
DistSq(a, b) == LenSq(VSub(a, b))

\* Eight times Vector2.length(), rounded; the extra factor keeps the quotient
\* of ScaleTo precise for short vectors.
Len8(a) ==
  IF LenSq(a) < 16000000 THEN RSqrt(64 * LenSq(a)) ELSE 8 * RSqrt(LenSq(a))

\* The vector of direction a (non-zero) and length len:
\* Vector2.scale_to_length(len), and Vector2.normalize() * len.
ScaleTo(a, len) ==
  Vec(RoundDiv(8 * a[1] * len, Len8(a)), RoundDiv(8 * a[2] * len, Len8(a)))

\* ---------------------------------------------------------- configuration
\* The arguments of update_boids, in grid points.  Factors are fractions
\* <<numerator, denominator>>.  The values are those of the repository's
\* constants; width and height stand for the display size.
DefaultConfig ==
  [ width            |-> 60 * Scale,
    height           |-> 40 * Scale,
    margin           |-> 10 * Scale,
    min_speed        |-> Scale \div 2,
    max_speed        |-> 3 * Scale,
    visible_range    |-> 20 * Scale,
    protected_range  |-> 2 * Scale,
    avoid_factor     |-> <<5, 100>>,
    matching_factor  |-> <<5, 100>>,
    centering_factor |-> <<5, 10000>>,
    turn_factor      |-> Scale \div 5 ]

\* A configuration without boundary turning and without a minimum speed.
FreeConfig ==
  [DefaultConfig EXCEPT !.turn_factor = 0, !.min_speed = 0]

Configs == {DefaultConfig, FreeConfig}

\* "A small radius for being eaten": dist_sq < 2**2.
CaptureRadiusSq == (2 * Scale) * (2 * Scale)

\* safe_distance = 1.0, the default argument of calculate_flee_velocity.
SafeDistance == Scale

\* Resolution of one term diff / dist_sq of the repulsion sum: the quotient
\* is kept in units of 1 / FleeWeight grid points.
FleeWeight == 4000 * Scale

\* The values random.uniform(-1, 1) is drawn from, per axis pair.
Wander == {Vec(0, 0), Vec(Scale, Scale \div 2)}

VARIABLES
  cfg,         \* the arguments every call of update_boids is made with
  boids,       \* the agent list
  pc,          \* "idle" between calls; "compute", "commit" inside update_boids
  grid,        \* update_boids' local grid: cell -> list of agent indices
  cursor,      \* the agent the comprehension of update_boids is at
  new_states,  \* update_boids' local new_states_to_apply
  locals,      \* the locals of the latest call of get_change
  pre,         \* the agent list as it was when the current call began
  ticks        \* completed calls of update_boids

vars == <<cfg, boids, pc, grid, cursor, new_states, locals, pre, ticks>>

\* ------------------------------------------------------------------- Boid
Boid(i, pos, vel, pred) ==
  [ idx           |-> i,
    position      |-> pos,
    velocity      |-> vel,
    current_speed |-> 0,
    colour        |-> <<0, 0, 0>>,
    predator      |-> pred,
    alive         |-> TRUE ]

\* ---------------------------------------------------------- populate_grid
\* Mutant of CellSize: the cells are sized by the wrong radius,
\* cell_size = protected_range * 1.1.
CellSizeProtected(c) == <<11 * c.protected_range, 10>>

\* cell_size = visible_range * 1.1, as the fraction <<numerator, denominator>>.
CellSize(c) == <<11 * c.visible_range, 10>>

\* int(x // cell_s): floor division.
CellCoord(x, cs) == (x * cs[2]) \div cs[1]

CellOf(pos, cs) == <<CellCoord(pos[1], cs), CellCoord(pos[2], cs)>>

\* The indices 1..n of bs whose boid lies in cell, in list order.
RECURSIVE CellList(_, _, _, _)
CellList(bs, cs, cell, n) ==
  IF n = 0 THEN <<>>
  ELSE LET rest == CellList(bs, cs, cell, n - 1)
       IN IF CellOf(bs[n].position, cs) = cell THEN Append(rest, n) ELSE rest

\* The grid holds the boids themselves (references); the model holds their
\* indices.  Only the cells some boid lies in are keys of the grid.
PopulateGrid(bs, cs) ==
  [cell \in {CellOf(bs[i].position, cs) : i \in 1..Len(bs)} |->
     CellList(bs, cs, cell, Len(bs))]

\* ------------------------------------------------ calculate_flee_velocity
\* One term diff / dist_sq of the repulsion sum, dist_sq raised to
\* safe_distance ** 2 when it is smaller.
Repulsion(pos, ppos) ==
  LET diff == VSub(pos, ppos)
      d    == Max2(DistSq(pos, ppos), SafeDistance * SafeDistance)
  IN Vec(RoundDiv(diff[1] * FleeWeight, d), RoundDiv(diff[2] * FleeWeight, d))

\* total_repulsion_vector over the predators preds (a sequence of indices).
RECURSIVE TotalRepulsion(_, _, _)
TotalRepulsion(bs, pos, preds) ==
  IF preds = <<>> THEN Zero
  ELSE VAdd(Repulsion(pos, bs[Head(preds)].position),
            TotalRepulsion(bs, pos, Tail(preds)))

\* Mutant of CalculateFleeVelocity: a zero repulsion sum is given a default
\* direction instead of the zero vector.
CalculateFleeVelocityDefault(bs, pos, preds, flee_speed) ==
  IF preds = <<>> THEN Zero
  ELSE LET total == TotalRepulsion(bs, pos, preds)
       IN IF LenSq(total) > 0 THEN ScaleTo(total, flee_speed)
          ELSE Vec(flee_speed, 0)

CalculateFleeVelocity(bs, pos, preds, flee_speed) ==
  IF preds = <<>> THEN Zero
  ELSE LET total == TotalRepulsion(bs, pos, preds)
       IN IF LenSq(total) > 0 THEN ScaleTo(total, flee_speed) ELSE Zero

\* -------------------------------------------------------------- get_change
\* range(-1, 2)
Offsets == <<-1, 0, 1>>

\* The boids the two offset loops reach, in the order they reach them,
\* without the boid itself (`other_boid is boid`).
ScanSeq(bs, g, i, cs) ==
  LET home == CellOf(bs[i].position, cs)
      At(k) ==
        LET cell == <<home[1] + Offsets[((k - 1) \div 3) + 1],
                      home[2] + Offsets[((k - 1) % 3) + 1]>>
        IN IF cell \in DOMAIN g THEN g[cell] ELSE <<>>
      NotMe(j) == j # i
  IN SelectSeq(At(1) \o At(2) \o At(3) \o At(4) \o At(5) \o At(6)
               \o At(7) \o At(8) \o At(9), NotMe)

RECURSIVE SumPositions(_, _)
SumPositions(bs, js) ==
  IF js = <<>> THEN Zero
  ELSE VAdd(bs[Head(js)].position, SumPositions(bs, Tail(js)))

RECURSIVE SumVelocities(_, _)
SumVelocities(bs, js) ==
  IF js = <<>> THEN Zero
  ELSE VAdd(bs[Head(js)].velocity, SumVelocities(bs, Tail(js)))

\* close_diff: the sum of boid.position - other_boid.position.
RECURSIVE SumDiffs(_, _, _)
SumDiffs(bs, pos, js) ==
  IF js = <<>> THEN Zero
  ELSE VAdd(VSub(pos, bs[Head(js)].position), SumDiffs(bs, pos, Tail(js)))

\* The boundary turning of next_velocity.
Turn(v, pos, c) ==
  IF c.turn_factor > 0
  THEN Vec(IF pos[1] < c.margin THEN v[1] + c.turn_factor
           ELSE IF pos[1] > c.width - c.margin THEN v[1] - c.turn_factor
           ELSE v[1],
           IF pos[2] < c.margin THEN v[2] + c.turn_factor
           ELSE IF pos[2] > c.height - c.margin THEN v[2] - c.turn_factor
           ELSE v[2])
  ELSE v

\* Mutant of FinalSpeed: the lower clamp is lost, min(speed, max_speed).
FinalSpeedNoMin(v, c) ==
  IF LenSq(v) > c.max_speed * c.max_speed THEN c.max_speed ELSE RSqrt(LenSq(v))

\* final_speed for a velocity of non-zero length:
\* max(min_speed, min(speed, max_speed)).
FinalSpeed(v, c) ==
  IF LenSq(v) > c.max_speed * c.max_speed
  THEN Max2(c.min_speed, c.max_speed)
  ELSE IF LenSq(v) < c.min_speed * c.min_speed THEN c.min_speed
  ELSE RSqrt(LenSq(v))

\* next_velocity.scale_to_length(final_speed); scaling a vector to its own
\* length leaves it as it is.
Clamped(v, c) ==
  IF LenSq(v) > c.max_speed * c.max_speed \/ LenSq(v) < c.min_speed * c.min_speed
  THEN ScaleTo(v, FinalSpeed(v, c))
  ELSE v

\* The locals of a call of get_change that has not been made.
NoLocals ==
  [ idx                    |-> 0,
    scanned                |-> <<>>,
    eaten                  |-> FALSE,
    nearby_predators       |-> <<>>,
    neighboring_prey_count |-> 0,
    close_diff             |-> Zero,
    rule_velocity          |-> Zero,
    random_path            |-> FALSE ]

\* The scan of get_change for boid i: the two offset loops with everything
\* they accumulate.  preds is nearby_predators; counted are the boids that
\* neighboring_prey_count counts and position_avg / velocity_avg sum over;
\* close are the boids close_diff sums over; eaten tells whether the scan
\* ended in the early return of a prey that is eaten.
Scan(bs, g, i, c) ==
  LET pos     == bs[i].position
      scanned == ScanSeq(bs, g, i, CellSize(c))
      Live(j) == bs[j].alive
      IsPred(j) == bs[j].predator
      Seen(j) ==
        /\ ~bs[j].predator
        /\ DistSq(pos, bs[j].position) < c.visible_range * c.visible_range
      Protected(j) ==
        DistSq(pos, bs[j].position) < c.protected_range * c.protected_range
      Far(j)  == ~Protected(j)
      Caught(j) == DistSq(pos, bs[j].position) < CaptureRadiusSq
      live    == SelectSeq(scanned, Live)
  IN [ scanned |-> scanned,
       preds   |-> SelectSeq(live, IsPred),
       eaten   |-> ~bs[i].predator
                     /\ SelectSeq(SelectSeq(live, IsPred), Caught) # <<>>,
       counted |-> IF bs[i].predator THEN SelectSeq(live, Seen)
                   ELSE SelectSeq(SelectSeq(live, Seen), Far),
       close   |-> IF bs[i].predator THEN <<>>
                   ELSE SelectSeq(SelectSeq(live, Seen), Protected) ]

\* Prey, no predator noted, neighboring_prey_count > 0: cohesion, alignment
\* and separation are added to the velocity.
Flock(bs, i, c, sc) ==
  LET n == Len(sc.counted)
      cohesion ==
        VMulRat(VSub(VDiv(SumPositions(bs, sc.counted), n), bs[i].position),
                c.centering_factor[1], c.centering_factor[2])
      alignment ==
        VMulRat(VSub(VDiv(SumVelocities(bs, sc.counted), n), bs[i].velocity),
                c.matching_factor[1], c.matching_factor[2])
      separation ==
        VMulRat(SumDiffs(bs, bs[i].position, sc.close),
                c.avoid_factor[1], c.avoid_factor[2])
  IN VAdd(bs[i].velocity, VAdd(VAdd(cohesion, alignment), separation))

\* Predator, neighboring_prey_count > 0: seek the average position of the
\* prey in sight at half the maximum speed.
Chase(bs, i, c, sc) ==
  LET chase_vector ==
        VSub(VDiv(SumPositions(bs, sc.counted), Len(sc.counted)), bs[i].position)
  IN IF LenSq(chase_vector) > 0
     THEN VAdd(bs[i].velocity, ScaleTo(chase_vector, RoundDiv(c.max_speed, 2)))
     ELSE bs[i].velocity

\* next_velocity when the prey / predator rules are done.
RuleVelocity(bs, i, c, rnd, sc) ==
  IF ~bs[i].predator
  THEN IF sc.preds # <<>>
       THEN CalculateFleeVelocity(bs, bs[i].position, sc.preds, c.max_speed)
       ELSE IF Len(sc.counted) > 0 THEN Flock(bs, i, c, sc)
       ELSE bs[i].velocity
  ELSE IF Len(sc.counted) > 0 THEN Chase(bs, i, c, sc)
       ELSE VAdd(bs[i].velocity, rnd)

\* The speed regulator on next_velocity v (boundary turning done):
\* final_velocity, final_speed, and what next_velocity holds at the end
\* (the scaled vector is next_velocity itself, scaled in place; the nudge
\* Vector2(min_speed, 0) is a new object).
Regulate(v, c) ==
  IF LenSq(v) > 0
  THEN [velocity |-> Clamped(v, c), speed |-> FinalSpeed(v, c), written |-> Clamped(v, c)]
  ELSE [velocity |-> Vec(c.min_speed, 0), speed |-> c.min_speed, written |-> v]

\* The return of get_change for a boid that is not eaten, and the list it
\* leaves: next_velocity is boid.velocity itself, written in place, unless
\* the flee vector, a new object, replaced it.
Moved(bs, i, sc, rule_velocity, reg) ==
  [ boids  |-> IF ~bs[i].predator /\ sc.preds # <<>> THEN bs
               ELSE [bs EXCEPT ![i].velocity = reg.written],
    state  |-> [ idx      |-> bs[i].idx,
                 position |-> VAdd(bs[i].position, reg.velocity),
                 velocity |-> reg.velocity,
                 speed    |-> reg.speed,
                 alive    |-> bs[i].alive ],
    locals |-> [ idx                    |-> i,
                 scanned                |-> sc.scanned,
                 eaten                  |-> FALSE,
                 nearby_predators       |-> sc.preds,
                 neighboring_prey_count |-> Len(sc.counted),
                 close_diff             |-> SumDiffs(bs, bs[i].position, sc.close),
                 rule_velocity          |-> rule_velocity,
                 random_path            |-> bs[i].predator /\ sc.counted = <<>> ] ]

\* The early return of get_change for a prey that is eaten.
Eaten(bs, i, sc) ==
  [ boids  |-> [bs EXCEPT ![i].alive = FALSE],
    state  |-> [ idx |-> bs[i].idx, position |-> Zero, velocity |-> Zero,
                 speed |-> 0, alive |-> FALSE ],
    locals |-> [NoLocals EXCEPT !.idx = i, !.scanned = sc.scanned, !.eaten = TRUE] ]

Regulated(bs, i, c, sc, rule_velocity) ==
  Moved(bs, i, sc, rule_velocity, Regulate(Turn(rule_velocity, bs[i].position, c), c))

Ruled(bs, i, c, rnd, sc) ==
  IF sc.eaten THEN Eaten(bs, i, sc)
  ELSE Regulated(bs, i, c, sc, RuleVelocity(bs, i, c, rnd, sc))

\* get_change(boid = bs[i], grid = g, ...) with rnd the vector the two calls
\* of random.uniform(-1, 1) return.  The result is
\*   boids : the agent list after the call (get_change writes boid.alive,
\*           and boid.velocity through the alias next_velocity),
\*   state : the tuple returned, (idx, position, velocity, speed, alive),
\*   locals: the call's locals; rule_velocity is next_velocity as it is when
\*           the prey / predator rules are done, before boundary turning.
GetChange(bs, g, i, c, rnd) == Ruled(bs, i, c, rnd, Scan(bs, g, i, c))

\* ----------------------------------------------------- get_colour_by_speed
\* int(a / b) for b > 0: truncation toward zero.
Trunc(a, b) == IF a >= 0 THEN a \div b ELSE -((-a) \div b)

\* Mutant of GetColourBySpeed: t is not clamped to [0, 1].
GetColourBySpeedNoClamp(speed, min_speed, max_speed) ==
  LET den == max_speed - min_speed
      t   == speed - min_speed
  IN <<Trunc(255 * (den - t), den), 0, Trunc(255 * t, den)>>

\* get_colour_by_speed(speed, min_speed, max_speed), min_speed < max_speed.
\* t is the fraction tnum / den.
GetColourBySpeed(speed, min_speed, max_speed) ==
  LET den  == max_speed - min_speed
      tnum == Max2(0, Min2(den, speed - min_speed))
  IN <<Trunc(255 * (den - tnum), den), 0, Trunc(255 * tnum, den)>>

\* ------------------------------------------------------------ update_boids
\* Mutant of ClampTo: the upper clamp is lost, max(0.0, x).
ClampToNoMax(x, limit) == Max2(0, x)

\* max(0.0, min(float(limit - 1), x)), limit - 1 in world units.
ClampTo(x, limit) == Max2(0, Min2(limit - Scale, x))

\* One round of the apply loop: the new state st is written to boids[idx].
ApplyState(bs, st, c) ==
  [bs EXCEPT ![st.idx] =
     [@ EXCEPT !.colour        = IF ~st.alive THEN <<0, 0, 0>> ELSE @,
               !.position      = Vec(ClampTo(st.position[1], c.width),
                                     ClampTo(st.position[2], c.height)),
               !.velocity      = st.velocity,
               !.current_speed = st.speed]]

\* The apply loop over new_states_to_apply.
RECURSIVE ApplyStates(_, _, _)
ApplyStates(bs, states, c) ==
  IF states = <<>> THEN bs
  ELSE ApplyStates(ApplyState(bs, Head(states), c), Tail(states), c)

\* Mutant of IsLive: the comprehension has no filter.
IsLiveAlways(b) == TRUE

\* The filter of the comprehension: `if boid.alive`.
IsLive(b) == b.alive

\* The comprehension `get_change(boid, ...) for boid in boids if boid.alive`
\* taken over the indices of order, one after the other, every random draw
\* returning rnd.  random_path tells whether some call drew.
RECURSIVE ComputePhase(_, _, _, _, _)
ComputePhase(bs, g, order, c, rnd) ==
  IF order = <<>>
  THEN [boids |-> bs, states |-> <<>>, random_path |-> FALSE]
  ELSE IF ~IsLive(bs[Head(order)])
  THEN ComputePhase(bs, g, Tail(order), c, rnd)
  ELSE LET r    == GetChange(bs, g, Head(order), c, rnd)
           rest == ComputePhase(r.boids, g, Tail(order), c, rnd)
       IN [ boids       |-> rest.boids,
            states      |-> <<r.state>> \o rest.states,
            random_path |-> r.locals.random_path \/ rest.random_path ]

\* update_boids(bs, ...) with the comprehension taken in the given order.
UpdateBoidsIn(bs, order, c, rnd) ==
  LET ph == ComputePhase(bs, PopulateGrid(bs, CellSize(c)), order, c, rnd)
  IN [boids |-> ApplyStates(ph.boids, ph.states, c), random_path |-> ph.random_path]

\* ---------------------------------------------------------- initial lists
\* A point given in tenths of a world unit.
Pt(x, y) == Vec((x * Scale) \div 10, (y * Scale) \div 10)

\* The agents an initial list is made of: position, velocity, predator.
Templates ==
  { <<Pt(200, 200), Pt(10, 0),  FALSE>>,
    <<Pt(210, 200), Pt(0, 0),   FALSE>>,
    <<Pt(260, 200), Pt(-20, 10), FALSE>>,
    <<Pt(590, 390), Pt(30, 30), FALSE>>,
    <<Pt(215, 205), Pt(0, 0),   TRUE>>,
    <<Pt(150, 200), Pt(10, 10), TRUE>>,
    <<Pt(250, 200), Pt(-10, 0), TRUE>>,
    <<Pt(420, 200), Pt(0, -10), TRUE>> }

\* The initial lists: one, two or three agents, idx the place in the list.
InitLists ==
  { <<Boid(1, a[1], a[2], a[3])>> : a \in Templates }
  \cup
  { <<Boid(1, a[1], a[2], a[3]), Boid(2, b[1], b[2], b[3])>> :
      a \in Templates, b \in Templates }
  \cup
  { <<Boid(1, a[1], a[2], a[3]), Boid(2, b[1], b[2], b[3]), Boid(3, d[1], d[2], d[3])>> :
      a \in Templates, b \in Templates, d \in Templates }

\* ---------------------------------------------------------------- actions
Init ==
  /\ cfg \in Configs
  /\ boids \in InitLists
  /\ pc = "idle"
  /\ grid = <<>>
  /\ cursor = 0
  /\ new_states = <<>>
  /\ locals = NoLocals
  /\ pre = boids
  /\ ticks = 0

\* update_boids is called: the grid is built.
StartTick ==
  /\ pc = "idle"
  /\ ticks < MaxTicks
  /\ pc' = "compute"
  /\ grid' = PopulateGrid(boids, CellSize(cfg))
  /\ cursor' = 1
  /\ new_states' = <<>>
  /\ locals' = NoLocals
  /\ pre' = boids
  /\ UNCHANGED <<cfg, boids, ticks>>

\* The comprehension passes over a boid that is not alive.
SkipDead ==
  /\ pc = "compute"
  /\ cursor <= Len(boids)
  /\ ~IsLive(boids[cursor])
  /\ cursor' = cursor + 1
  /\ UNCHANGED <<cfg, boids, pc, grid, new_states, locals, pre, ticks>>

\* The comprehension calls get_change for a live boid.
Compute ==
  /\ pc = "compute"
  /\ cursor <= Len(boids)
  /\ IsLive(boids[cursor])
  /\ \E rnd \in Wander :
       LET r == GetChange(boids, grid, cursor, cfg, rnd)
       IN /\ boids' = r.boids
          /\ new_states' = Append(new_states, r.state)
          /\ locals' = r.locals
  /\ cursor' = cursor + 1
  /\ UNCHANGED <<cfg, pc, grid, pre, ticks>>

\* The apply loop; update_boids returns.
Commit ==
  /\ pc = "compute"
  /\ cursor > Len(boids)
  /\ boids' = ApplyStates(boids, new_states, cfg)
  /\ pc' = "idle"
  /\ grid' = <<>>
  /\ cursor' = 0
  /\ new_states' = <<>>
  /\ locals' = NoLocals
  /\ ticks' = ticks + 1
  /\ UNCHANGED <<cfg, pre>>

Next == StartTick \/ SkipDead \/ Compute \/ Commit

Spec == Init /\ [][Next]_vars

\* ----------------------------------------------------------------- claims
Agents == 1..Len(boids)

\* A call of update_boids has returned.
Returned == pc = "idle" /\ ticks > 0

\* C3 (dead-agent freezing): an agent whose alive flag is false when a call
\* of update_boids begins is left as it is by every step of that call, its
\* position, velocity, current_speed and alive flag included; and no step
\* ever sets an alive flag that is false back to true.  Since the agent is
\* then dead when the next call begins, it stays frozen in all later calls.
C3_DeadFrozen ==
  [][\A i \in Agents :
       /\ ~pre'[i].alive => boids'[i] = boids[i]
       /\ ~boids[i].alive => ~boids'[i].alive]_vars

\* A call has returned that began with a dead agent and moved a live one.
C3_Witness ==
  /\ Returned
  /\ \E i \in Agents : ~pre[i].alive
  /\ \E j \in Agents : pre[j].alive /\ boids[j].position # pre[j].position

\* C4 (boundary invariant): after every call of update_boids every agent of
\* the list, dead ones and just-captured ones included, lies in
\* [0, width - 1] x [0, height - 1].
C4_InBounds ==
  Returned =>
    \A i \in Agents :
      /\ 0 <= boids[i].position[1]
      /\ boids[i].position[1] <= cfg.width - Scale
      /\ 0 <= boids[i].position[2]
      /\ boids[i].position[2] <= cfg.height - Scale

\* A live agent whose velocity carried it past the right edge was put back
\* onto it.
C4_Witness ==
  /\ Returned
  /\ \E i \in Agents :
       /\ boids[i].alive
       /\ pre[i].position[1] + boids[i].velocity[1] > cfg.width - Scale
       /\ boids[i].position[1] = cfg.width - Scale

\* The length of v is len to within one grid point.
HasLength(v, len) ==
  /\ LenSq(v) <= (len + 1) * (len + 1)
  /\ len > 0 => LenSq(v) >= (len - 1) * (len - 1)

\* C5 (speed invariant): after every call of update_boids every agent that is
\* still alive has min_speed <= current_speed <= max_speed, and current_speed
\* is the length of its velocity (to the grid's resolution); and a call of
\* get_change whose velocity is the zero vector after the rules and the
\* boundary turning returns the velocity (min_speed, 0) and the speed
\* min_speed.
C5_SpeedInRange ==
  /\ Returned =>
       \A i \in Agents :
         boids[i].alive =>
           /\ cfg.min_speed <= boids[i].current_speed
           /\ boids[i].current_speed <= cfg.max_speed
           /\ HasLength(boids[i].velocity, boids[i].current_speed)
  /\ ( /\ pc = "compute"
       /\ locals.idx # 0
       /\ ~locals.eaten
       /\ Turn(locals.rule_velocity, boids[locals.idx].position, cfg) = Zero )
     => /\ new_states[Len(new_states)].velocity = Vec(cfg.min_speed, 0)
        /\ new_states[Len(new_states)].speed = cfg.min_speed

\* A call has returned in which an agent at rest was given the velocity
\* (min_speed, 0), min_speed > 0, and another agent was slowed to max_speed.
C5_Witness ==
  /\ Returned
  /\ cfg.min_speed > 0
  /\ \E i \in Agents :
       /\ boids[i].alive
       /\ pre[i].velocity = Zero
       /\ boids[i].velocity = Vec(cfg.min_speed, 0)
       /\ boids[i].current_speed = cfg.min_speed
  /\ \E j \in Agents :
       /\ boids[j].alive
       /\ LenSq(pre[j].velocity) > cfg.max_speed * cfg.max_speed
       /\ boids[j].current_speed = cfg.max_speed

\* No index occurs twice in the sequence s.
NoRepeats(s) == \A m, n \in 1..Len(s) : s[m] = s[n] => m = n

InSeq(x, s) == \E n \in 1..Len(s) : s[n] = x

Orders(n) ==
  { f \in [1..n -> 1..n] : \A a, b \in 1..n : f[a] = f[b] => a = b }

\* What the claims compare of an agent.
Committed(b) ==
  [ position      |-> b.position,
    velocity      |-> b.velocity,
    current_speed |-> b.current_speed,
    alive         |-> b.alive ]

SameCommitted(bs1, bs2) ==
  \A i \in 1..Len(bs1) : Committed(bs1[i]) = Committed(bs2[i])

\* No order of the compute phase of update_boids(bs, ...) takes a random path.
NoRandomPath(bs, c) ==
  \A o \in Orders(Len(bs)) : ~UpdateBoidsIn(bs, o, c, Zero).random_path

\* C1 (order-independence), as claimed: in a call of update_boids in which no
\* order of the compute phase takes a random path, every order of the compute
\* phase commits the agents the call has committed; and the agent get_change
\* is about to be called for reads no alive flag and no velocity that an
\* earlier call of get_change of the same tick has written.
C1_OrderIndependent ==
  /\ (Returned /\ NoRandomPath(pre, cfg))
     => \A o \in Orders(Len(pre)) :
          SameCommitted(UpdateBoidsIn(pre, o, cfg, Zero).boids, boids)
  /\ ( /\ pc = "compute"
       /\ cursor <= Len(boids)
       /\ IsLive(boids[cursor])
       /\ NoRandomPath(pre, cfg) )
     => LET sc == Scan(boids, grid, cursor, cfg)
        IN /\ \A k \in 1..Len(sc.scanned) :
                boids[sc.scanned[k]].alive = pre[sc.scanned[k]].alive
           /\ ~boids[cursor].predator =>
                \A k \in 1..Len(sc.counted) :
                  boids[sc.counted[k]].velocity = pre[sc.counted[k]].velocity

\* The agents of the list bs that the scan of agent i reaches.
Block(bs, i, c) == ScanSeq(bs, PopulateGrid(bs, CellSize(c)), i, CellSize(c))

\* Prey i of the list bs has a live predator of its 3x3 block within the
\* capture radius.
InReach(bs, i, c) ==
  /\ bs[i].alive
  /\ ~bs[i].predator
  /\ \E k \in 1..Len(Block(bs, i, c)) :
       LET j == Block(bs, i, c)[k]
       IN /\ bs[j].alive
          /\ bs[j].predator
          /\ DistSq(bs[i].position, bs[j].position) < CaptureRadiusSq

\* C2 (capture leaves the prey where it was), as claimed: a live prey with a
\* live predator within the capture radius when update_boids is called is,
\* when the call returns, not alive, with the position and the velocity it
\* had when the call began.
C2_CaptureInPlace ==
  Returned =>
    \A i \in Agents :
      InReach(pre, i, cfg) =>
        /\ ~boids[i].alive
        /\ boids[i].position = pre[i].position
        /\ boids[i].velocity = pre[i].velocity

\* The list bs holds exactly two live prey and no predator, and the two are
\* nearer to each other than protected_range.
TwoClosePrey(bs, c) ==
  /\ Len(bs) = 2
  /\ \A i \in 1..2 : bs[i].alive /\ ~bs[i].predator
  /\ DistSq(bs[1].position, bs[2].position)
       < c.protected_range * c.protected_range

\* C6 (separation between two close agents), as claimed: in a call of
\* update_boids for two live prey nearer to each other than protected_range,
\* the velocity of each, before boundary turning and speed clamping, is the
\* velocity it had plus (own position - other position) x avoid_factor.
C6_Separation ==
  ( /\ pc = "compute"
    /\ locals.idx # 0
    /\ TwoClosePrey(pre, cfg) )
  => locals.rule_velocity =
       VAdd(pre[locals.idx].velocity,
            VMulRat(VSub(pre[locals.idx].position, pre[3 - locals.idx].position),
                    cfg.avoid_factor[1], cfg.avoid_factor[2]))

\* get_change has just returned for a prey that noted at least one predator,
\* none of them within the capture radius, and whose repulsion vectors sum
\* to the zero vector.
ZeroRepulsion ==
  /\ pc = "compute"
  /\ locals.idx # 0
  /\ ~boids[locals.idx].predator
  /\ ~locals.eaten
  /\ locals.nearby_predators # <<>>
  /\ TotalRepulsion(boids, boids[locals.idx].position, locals.nearby_predators) = Zero

Without(bs, q) == [bs EXCEPT ![q].alive = FALSE]

\* C10 (visible range bounds all interaction), as claimed: for the prey P
\* get_change is about to be called for and every other agent Q at a distance
\* of visible_range or more, the state get_change returns for P is the state
\* it returns with Q absent.
C10_OutOfSightNoInfluence ==
  ( /\ pc = "compute"
    /\ cursor <= Len(boids)
    /\ IsLive(boids[cursor])
    /\ ~boids[cursor].predator )
  => \A q \in Agents \ {cursor} :
       DistSq(boids[cursor].position, boids[q].position)
           >= cfg.visible_range * cfg.visible_range
         => GetChange(Without(boids, q), grid, cursor, cfg, Zero).state
              = GetChange(boids, grid, cursor, cfg, Zero).state

\* ------------------------------------------- colouring an agent by speed
\* The speed ranges get_colour_by_speed is called with: <<min_speed, max_speed>>.
ColourRanges ==
  { <<Scale \div 2, 3 * Scale>>, <<0, 3 * Scale>>, <<Scale, Scale + 3>>,
    <<Scale \div 2, (Scale \div 2) + 1>>, <<0, 255>> }

\* The speeds it is called with, some below min_speed and some above max_speed.
ColourSpeeds == (-Scale)..(4 * Scale)

InitColour ==
  /\ \E r \in ColourRanges :
       cfg = [DefaultConfig EXCEPT !.min_speed = r[1], !.max_speed = r[2]]
  /\ \E sp \in ColourSpeeds :
       boids = <<[Boid(1, Zero, Zero, FALSE) EXCEPT !.current_speed = sp]>>
  /\ pc = "idle"
  /\ grid = <<>>
  /\ cursor = 0
  /\ new_states = <<>>
  /\ locals = NoLocals
  /\ pre = boids
  /\ ticks = 0

\* The caller colours the agent by its speed.
Colour ==
  /\ pc = "idle"
  /\ boids' = [boids EXCEPT ![1].colour =
                 GetColourBySpeed(boids[1].current_speed, cfg.min_speed, cfg.max_speed)]
  /\ pc' = "coloured"
  /\ UNCHANGED <<cfg, grid, cursor, new_states, locals, pre, ticks>>

NextColour == Colour

SpecColour == InitColour /\ [][NextColour]_vars

\* C8 (get_colour_by_speed clamps at both ends): for min_speed < max_speed,
\* a speed of min_speed or less gives (255, 0, 0), a speed of max_speed or
\* more gives (0, 0, 255), green is 0, and red and blue are 255 x (1 - t) and
\* 255 x t cut to their integer parts, t = (speed - min_speed) /
\* (max_speed - min_speed) clamped to [0, 1].
C8_ColourClamps ==
  pc = "coloured" =>
    LET speed == boids[1].current_speed
        den   == cfg.max_speed - cfg.min_speed
        col   == boids[1].colour
        \* t x den
        t     == IF speed <= cfg.min_speed THEN 0
                 ELSE IF speed >= cfg.max_speed THEN den
                 ELSE speed - cfg.min_speed
    IN /\ speed <= cfg.min_speed => col = <<255, 0, 0>>
       /\ speed >= cfg.max_speed => col = <<0, 0, 255>>
       /\ col[2] = 0
       /\ col[1] >= 0 /\ col[1] * den <= 255 * (den - t) /\ 255 * (den - t) < (col[1] + 1) * den
       /\ col[3] >= 0 /\ col[3] * den <= 255 * t /\ 255 * t < (col[3] + 1) * den

\* The mid-point of the range of the tests has been coloured (127, 0, 127).
C8_Witness ==
  /\ pc = "coloured"
  /\ cfg.min_speed < boids[1].current_speed
  /\ boids[1].current_speed < cfg.max_speed
  /\ 2 * boids[1].current_speed = cfg.min_speed + cfg.max_speed
  /\ boids[1].colour = <<127, 0, 127>>

====
